---- MODULE Spec2Model ----
(***************************************************************************)
(* Model of the PostgresStorage layer of adTime-go-refactored              *)
(* (src/unnamed/part_001): the entity store over the tables orders,        *)
(* textures and users, the read-through cache for textures and order       *)
(* statistics, the Redis-backed rate limiter and the connection            *)
(* establisher.                                                            *)
(*                                                                         *)
(* Time is counted in whole clock units (hours).  Every handler runs in a  *)
(* task.  CheckRateLimit, SaveOrder and GetOrderStatistics are split at    *)
(* their round-trips to Redis and Postgres, so that other tasks and the    *)
(* clock can fall between them; the other handlers are one step.  Every    *)
(* round-trip may fail, and the handler then takes the branch the code     *)
(* takes for the error.                                                    *)
(*                                                                         *)
(* An error a handler returns is its message together with the errors that *)
(* errors.Is finds by unwrapping it.  UpdateOrderStatus is the spreadsheet *)
(* export the code makes of it.                                            *)
(***************************************************************************)
EXTENDS Integers, Sequences, FiniteSets, TLC

VARIABLES
    now,        \* the clock
    ticks,      \* how often the clock was advanced
    redis,      \* the cache service: key -> [present, val, exp]
    limit,      \* CheckRateLimit's limit argument
    window,     \* CheckRateLimit's window argument
    pc,         \* task -> position inside the handler it runs
    loc,        \* task -> the handler's local variables
    ret,        \* what the call that returned last returned
    calls,      \* number of handler calls started
    winHits,    \* ghost: rate key -> INCRs since the key was last absent
    winClean,   \* ghost: rate key -> no call of the current window failed
    firstHit,   \* ghost: rate key -> time of the INCR that produced 1
    winPass,    \* ghost: rate key -> calls of the window that returned
                \*   limited = false and no error
    passLog,    \* ghost: rate key -> the times at which a call returned
                \*   limited = false and no error
    textures,   \* table textures: id -> row
    popBy,      \* ghost: texture id -> the texture GetTextureByID cached
    orders,     \* table orders: the rows in insertion order, id = position
    saved,      \* ghost: order id -> the Order that SaveOrder was called with
    afterSave,  \* ghost: a SaveOrder that found cached statistics has just
                \*   returned successfully and nothing was called since
    delDropped, \* ghost: a SaveOrder's deletion of 'order_stats' has failed
    report,     \* the sheet "Orders" of reports/current_orders.xlsx, row by row
    users,      \* table users: a set of rows
    agreeLog,   \* ghost: user -> the phones SaveUserAgreement stored, in order
    conn        \* NewPostgresStorage: position, clock and backoff state

vars == <<now, ticks, redis, limit, window, pc, loc, ret, calls,
          winHits, winClean, firstHit, winPass, passLog, textures, popBy,
          orders, saved, afterSave, delDropped, report, users, agreeLog, conn>>

rateVars == <<limit, window, winHits, winClean, firstHit, winPass, passLog>>
texVars == <<textures, popBy>>
orderVars == <<orders, saved, afterSave, delDropped, report>>
userVars == <<users, agreeLog>>

----------------------------------------------------------------------------
(* Bounds of the model *)

MaxLimit == 2
MaxWindow == 2
MaxTicks == 3
MaxCalls == 4
MaxOrders == 2
MaxOrderTicks == 2
MaxStatsTicks == 1

Tasks == {1, 2}
Users == {1, 2}
RateActions == {"order"}
TextureIDs == {"t1"}
Phones == {"+7900", "+7911"}
Prices == {-1, 0, 3}
NoExpiry == -1

----------------------------------------------------------------------------
(* The cache client (pkg/redis): a key/value store with expiry, atomic     *)
(* increment and explicit deletion.                                        *)

RateKey(userID, action) == <<"ratelimit", userID, action>>

RateKeys == {RateKey(u, a) : u \in Users, a \in RateActions}

TextureKey(textureID) == <<"texture", textureID>>

TextureKeys == {TextureKey(id) : id \in TextureIDs}

StatsKey == <<"order_stats">>

CacheKeys == RateKeys \cup TextureKeys \cup {StatsKey}

NoEntry == [present |-> FALSE, val |-> 0, exp |-> NoExpiry]

\* INCR: an absent key counts as 0; the key's expiry is left as it is.
RedisIncr(store, key) ==
    IF store[key].present
    THEN [store EXCEPT ![key].val = @ + 1]
    ELSE [store EXCEPT ![key] = [present |-> TRUE, val |-> 1, exp |-> NoExpiry]]

\* EXPIRE: the key, if it exists, expires ttl after time t.
RedisExpire(store, key, ttl, t) ==
    IF store[key].present
    THEN [store EXCEPT ![key].exp = t + ttl]
    ELSE store

\* GET: an absent key is an error (redis.Nil).
RedisGet(store, key) ==
    IF store[key].present
    THEN [err |-> "nil", val |-> store[key].val]
    ELSE [err |-> "redis: nil", val |-> <<>>]

\* SET with a time-to-live.
RedisSet(store, key, data, ttl, t) ==
    [store EXCEPT ![key] = [present |-> TRUE, val |-> data, exp |-> t + ttl]]

\* DEL
RedisDel(store, key) == [store EXCEPT ![key] = NoEntry]

\* Keys whose expiry has passed at time t are gone.
RedisSweep(store, t) ==
    [k \in DOMAIN store |->
        IF store[k].present /\ store[k].exp # NoExpiry /\ store[k].exp <= t
        THEN NoEntry ELSE store[k]]

----------------------------------------------------------------------------
(* Tasks *)

\* The storage after NewPostgresStorage returned it
Connected ==
    [pc |-> "done", elapsed |-> 0, interval |-> 0, wait |-> 0, handle |-> TRUE,
     err |-> "nil"]

NoLoc == [key |-> <<>>, count |-> 0, idx |-> 0]
NoRet == [op |-> "none"]

InFlight(key) == \E t \in Tasks : pc[t] = "rl_expire" /\ loc[t].key = key

----------------------------------------------------------------------------
(* Errors.  An error is its message and the errors errors.Is finds by        *)
(* unwrapping it.                                                           *)

\* sql.ErrNoRows
ErrNoRows == "sql: no rows in result set"

\* The errors a failed query returns
QueryFailures == {"driver: bad connection", "context canceled"}

\* fmt.Errorf("...: %w", err): the new error unwraps to err
Wrapping(err) == {err}

\* fmt.Errorf("...") without %w: the new error unwraps to nothing
NotWrapping == {}

\* errors.Is(err, target), on what err unwraps to
ErrorsIs(chain, target) == target \in chain

----------------------------------------------------------------------------
(* CheckRateLimit *)

\* a limiter that already refuses the call that reaches the limit
LimitedAtLimit(count, lim) == count >= lim

\* a limiter that refuses only above twice the limit
LimitedAboveDouble(count, lim) == count > 2 * lim

\* a limiter that lets one call more through
LimitedAboveNext(count, lim) == count > lim + 1

\* return count > limit
Limited(count, lim) == count > lim

\* count == 1: the first increment sets the expiry
FirstIncrement(count) == count = 1

\* idx (ghost): the index of the call's INCR in the key's window
RateReturn(t, key, count, err, idx) ==
    [op |-> "CheckRateLimit", task |-> t, key |-> key, err |-> err,
     count |-> count, idx |-> idx,
     limited |-> IF err = "nil" THEN Limited(count, limit) ELSE FALSE]

\* s.redis.Incr fails: the call returns the error
RL_IncrFails(t, key) ==
    /\ ret' = RateReturn(t, key, 0, "incr", 0)
    /\ UNCHANGED <<redis, pc, loc, winHits, winClean, firstHit, winPass, passLog>>

\* s.redis.Incr succeeds; unless this is the first increment the call returns
RL_IncrOk(t, key) ==
    LET store == RedisIncr(redis, key)
        count == store[key].val
    IN  /\ redis' = store
        /\ winHits' = [winHits EXCEPT ![key] = @ + 1]
        /\ firstHit' = IF count = 1 THEN [firstHit EXCEPT ![key] = now] ELSE firstHit
        /\ IF FirstIncrement(count)
           THEN /\ pc' = [pc EXCEPT ![t] = "rl_expire"]
                /\ loc' = [loc EXCEPT ![t] = [key |-> key, count |-> count,
                                               idx |-> winHits[key] + 1]]
                /\ ret' = NoRet
                /\ UNCHANGED <<winPass, passLog>>
           ELSE /\ ret' = RateReturn(t, key, count, "nil", winHits[key] + 1)
                /\ winPass' = IF Limited(count, limit) THEN winPass
                               ELSE [winPass EXCEPT ![key] = @ + 1]
                /\ passLog' = IF Limited(count, limit) THEN passLog
                               ELSE [passLog EXCEPT ![key] = Append(@, now)]
                /\ UNCHANGED <<pc, loc>>
        /\ UNCHANGED winClean

CheckRateLimit(t) ==
    /\ pc[t] = "idle"
    /\ calls < MaxCalls
    /\ calls' = calls + 1
    /\ \E u \in Users, a \in RateActions :
          \/ RL_IncrOk(t, RateKey(u, a))
          \/ RL_IncrFails(t, RateKey(u, a))
    /\ UNCHANGED <<now, ticks, limit, window>>
    /\ UNCHANGED <<texVars, orderVars, userVars, conn>>

\* s.redis.Expire(ctx, key, window), reached when count == 1
CheckRateLimitExpire(t) ==
    /\ pc[t] = "rl_expire"
    /\ LET key == loc[t].key IN
          \/ /\ redis' = RedisExpire(redis, key, window, now)
             /\ ret' = RateReturn(t, key, loc[t].count, "nil", loc[t].idx)
             /\ winPass' = IF Limited(loc[t].count, limit) THEN winPass
                            ELSE [winPass EXCEPT ![key] = @ + 1]
             /\ passLog' = IF Limited(loc[t].count, limit) THEN passLog
                            ELSE [passLog EXCEPT ![key] = Append(@, now)]
             /\ UNCHANGED winClean
          \/ /\ ret' = RateReturn(t, key, loc[t].count, "expire", loc[t].idx)
             /\ winClean' = [winClean EXCEPT ![key] = FALSE]
             /\ UNCHANGED <<redis, winPass, passLog>>
    /\ pc' = [pc EXCEPT ![t] = "idle"]
    /\ loc' = [loc EXCEPT ![t] = NoLoc]
    /\ UNCHANGED <<now, ticks, limit, window, calls, winHits, firstHit>>
    /\ UNCHANGED <<texVars, orderVars, userVars, conn>>

----------------------------------------------------------------------------
(* Texture and its JSON form *)

Texture(id, name, price, url, stock) ==
    [ID |-> id, Name |-> name, PricePerDM2 |-> price, ImageURL |-> url,
     InStock |-> stock]

\* the zero value of the struct
ZeroTexture == Texture("", "", 0, "", FALSE)

NoRow == [absent |-> TRUE]

TextureRows(id) ==
    {Texture(id, "leather", p, "img", s) : p \in Prices, s \in BOOLEAN}

\* an encoding that loses the in-stock flag
MarshalTextureNoStock(tex) ==
    [json |-> "object",
     members |-> << <<"ID", tex.ID>>, <<"Name", tex.Name>>,
                    <<"PricePerDM2", tex.PricePerDM2>>,
                    <<"ImageURL", tex.ImageURL>> >>]

\* json.Marshal(texture): an object with one member per exported field
MarshalTexture(tex) ==
    [json |-> "object",
     members |-> << <<"ID", tex.ID>>, <<"Name", tex.Name>>,
                    <<"PricePerDM2", tex.PricePerDM2>>,
                    <<"ImageURL", tex.ImageURL>>, <<"InStock", tex.InStock>> >>]

\* Payloads that some other writer left in the cache
GarbagePayload == [json |-> "invalid", members |-> <<>>]
EmptyObjectPayload == [json |-> "object", members |-> <<>>]

Member(payload, name, zero) ==
    LET hits == {i \in 1..Len(payload.members) : payload.members[i][1] = name}
    IN  IF hits = {} THEN zero
        ELSE payload.members[CHOOSE i \in hits : \A j \in hits : j <= i][2]

\* json.Unmarshal(cached, &texture): members that are missing keep the zero value
UnmarshalTexture(payload) ==
    IF payload.json = "object"
    THEN [err |-> "nil",
          tex |-> Texture(Member(payload, "ID", ""), Member(payload, "Name", ""),
                          Member(payload, "PricePerDM2", 0),
                          Member(payload, "ImageURL", ""),
                          Member(payload, "InStock", FALSE))]
    ELSE [err |-> "json", tex |-> ZeroTexture]

----------------------------------------------------------------------------
(* GetTextureByID *)

TextureTTL == 24

\* a validation that lets a price of zero through
CachedPriceNegative(tex) == tex.PricePerDM2 < 0

\* texture.PricePerDM2 <= 0 on the cached texture
CachedPriceInvalid(tex) == tex.PricePerDM2 <= 0

\* a validation of the loaded row that lets a price of zero through
StoredPriceNegative(tex) == tex.PricePerDM2 < 0

\* texture.PricePerDM2 <= 0 on the row loaded from the database
StoredPriceInvalid(tex) == tex.PricePerDM2 <= 0

\* The cache read: "hit" with a texture to return, or the reason to go on
TextureCacheRead(store, textureID) ==
    LET got == RedisGet(store, TextureKey(textureID))
        un  == UnmarshalTexture(got.val)
    IN  IF got.err # "nil" THEN [read |-> "absent", tex |-> ZeroTexture]
        ELSE IF un.err # "nil" THEN [read |-> "undecodable", tex |-> ZeroTexture]
        ELSE IF CachedPriceInvalid(un.tex) THEN [read |-> "invalid", tex |-> un.tex]
        ELSE [read |-> "hit", tex |-> un.tex]

\* chain: what the returned error unwraps to; dbErr (ghost): the error of the
\* query; wasPopulated, popTex (ghost): the entry GetTextureByID wrote is still
\* cached
TextureReturn(t, id, err, dbErr, tex, read, queried) ==
    [op |-> "GetTextureByID", task |-> t, id |-> id, err |-> err, tex |-> tex,
     chain |-> IF err \in {"texture not found", "failed to get texture"}
               THEN Wrapping(dbErr) ELSE NotWrapping,
     dbErr |-> dbErr,
     cacheRead |-> read, dbQueried |-> queried,
     wasPopulated |-> popBy[id] # NoRow, popTex |-> popBy[id]]

\* s.db.GetContext and what follows it
GetTextureFromStore(t, id, read, cachedTex) ==
    \/ \* the query fails
       /\ \E e \in QueryFailures :
             ret' = TextureReturn(t, id, "failed to get texture", e, ZeroTexture,
                                  read, TRUE)
       /\ UNCHANGED <<redis, popBy>>
    \/ /\ textures[id] = NoRow
       /\ ret' = TextureReturn(t, id, "texture not found", ErrNoRows, ZeroTexture,
                               read, TRUE)
       /\ UNCHANGED <<redis, popBy>>
    \/ /\ textures[id] # NoRow
       /\ StoredPriceInvalid(textures[id])
       /\ ret' = TextureReturn(t, id, "invalid price", "nil", ZeroTexture, read, TRUE)
       /\ UNCHANGED <<redis, popBy>>
    \/ /\ textures[id] # NoRow
       /\ ~StoredPriceInvalid(textures[id])
       /\ ret' = TextureReturn(t, id, "nil", "nil", textures[id], read, TRUE)
       /\ \/ \* s.redis.Set stores the entry
             /\ redis' = RedisSet(redis, TextureKey(id),
                                  MarshalTexture(textures[id]), TextureTTL, now)
             /\ popBy' = [popBy EXCEPT ![id] = textures[id]]
          \/ \* s.redis.Set fails; its error is dropped
             UNCHANGED <<redis, popBy>>

GetTextureByID(t) ==
    /\ pc[t] = "idle"
    /\ calls < MaxCalls
    /\ calls' = calls + 1
    /\ \E id \in TextureIDs :
          LET cr == TextureCacheRead(redis, id) IN
          \/ \* the cache answers
             IF cr.read = "hit"
             THEN /\ ret' = TextureReturn(t, id, "nil", "nil", cr.tex, "hit", FALSE)
                  /\ UNCHANGED <<redis, popBy>>
             ELSE GetTextureFromStore(t, id, cr.read, cr.tex)
          \/ \* s.redis.Get fails
             GetTextureFromStore(t, id, "error", ZeroTexture)
    /\ UNCHANGED <<now, ticks, pc, loc, textures>>
    /\ UNCHANGED <<rateVars, orderVars, userVars, conn>>

----------------------------------------------------------------------------
(* Order and the table orders *)

Null == -1

Order(id, user, w, h, texID, texName, price, leather, process, total, commission, tax, net, profit, contact, status, created, updated) ==
    [ID |-> id, UserID |-> user, WidthCM |-> w, HeightCM |-> h,
     TextureID |-> texID, TextureName |-> texName, Price |-> price,
     LeatherCost |-> leather, ProcessCost |-> process, TotalCost |-> total,
     Commission |-> commission, Tax |-> tax, NetRevenue |-> net,
     Profit |-> profit, Contact |-> contact, Status |-> status,
     CreatedAt |-> created, UpdatedAt |-> updated]

\* the zero value of the struct
ZeroOrder == Order(0, 0, 0, 0, "", "", 0, 0, 0, 0, 0, 0, 0, 0, "", "", 0, 0)

\* The orders the callers save: each user orders one size of the same article,
\* stamped with the current time or with an earlier one
OrderInput(user, created) ==
    LET v == user IN
    Order(0, user, 10 * v, 20 * v, "t1", "leather", 100 * v, 30 * v, 20 * v,
          50 * v, 10 * v, 6 * v, 84 * v, 34 * v, "+7900",
          IF v = 1 THEN "new" ELSE "confirmed", created, 0)

OrderInputs(t) == {OrderInput(u, c) : u \in Users, c \in {0, t}}

\* The row INSERT INTO orders (...) VALUES ($1, ..., $15) creates: texture_name is
\* not among the inserted columns and keeps its default
InsertedRow(id, order, t) ==
    [id |-> id, user_id |-> order.UserID, width_cm |-> order.WidthCM,
     height_cm |-> order.HeightCM, texture_id |-> order.TextureID,
     texture_name |-> "", price |-> order.Price,
     leather_cost |-> order.LeatherCost, process_cost |-> order.ProcessCost,
     total_cost |-> order.TotalCost, commission |-> order.Commission,
     tax |-> order.Tax, net_revenue |-> order.NetRevenue,
     profit |-> order.Profit, contact |-> order.Contact,
     status |-> order.Status, created_at |-> order.CreatedAt,
     updated_at |-> t, deleted_at |-> Null]

\* SELECT * scanned into an Order
ScanOrder(row) ==
    Order(row.id, row.user_id, row.width_cm, row.height_cm, row.texture_id,
          row.texture_name, row.price, row.leather_cost, row.process_cost,
          row.total_cost, row.commission, row.tax, row.net_revenue, row.profit,
          row.contact, row.status, row.created_at, row.updated_at)

\* SELECT id, width_cm, height_cm, price, status, created_at scanned into an Order
ScanUserOrder(row) ==
    [ZeroOrder EXCEPT !.ID = row.id, !.WidthCM = row.width_cm,
                      !.HeightCM = row.height_cm, !.Price = row.price,
                      !.Status = row.status, !.CreatedAt = row.created_at]

----------------------------------------------------------------------------
(* GetUserOrders, DeleteUserData, GetOrderByID *)

\* a filter that forgets the soft-delete column
UserOrderIDsWithDeleted(tbl, userID) ==
    {i \in 1..Len(tbl) : tbl[i].user_id = userID}

\* WHERE user_id = $1 AND deleted_at IS NULL
UserOrderIDs(tbl, userID) ==
    {i \in 1..Len(tbl) : tbl[i].user_id = userID /\ tbl[i].deleted_at = Null}

\* ORDER BY created_at DESC: every order of the ids that is newest first
NewestFirst(tbl, ids) ==
    {s \in [1..Cardinality(ids) -> ids] :
        /\ \A i, j \in 1..Cardinality(ids) : i # j => s[i] # s[j]
        /\ \A i, j \in 1..Cardinality(ids) :
              i < j => tbl[s[i]].created_at >= tbl[s[j]].created_at}

UserOrdersReturn(t, userID, err, list) ==
    [op |-> "GetUserOrders", task |-> t, user |-> userID, err |-> err,
     orders |-> list]

GetUserOrders(t) ==
    /\ pc[t] = "idle"
    /\ calls < MaxCalls
    /\ calls' = calls + 1
    /\ \E userID \in Users :
          \/ \E s \in NewestFirst(orders, UserOrderIDs(orders, userID)) :
                ret' = UserOrdersReturn(t, userID, "nil",
                          [i \in DOMAIN s |-> ScanUserOrder(orders[s[i]])])
          \/ \* the query fails
             ret' = UserOrdersReturn(t, userID, "query failed", <<>>)
    /\ afterSave' = FALSE
    /\ UNCHANGED <<now, ticks, redis, pc, loc, orders, saved, delDropped, report>>
    /\ UNCHANGED <<rateVars, texVars, userVars, conn>>

\* UPDATE orders SET deleted_at = NOW() WHERE user_id = $1
SoftDelete(tbl, chatID, t) ==
    [i \in DOMAIN tbl |->
        IF tbl[i].user_id = chatID THEN [tbl[i] EXCEPT !.deleted_at = t]
        ELSE tbl[i]]

DeleteUserData(t) ==
    /\ pc[t] = "idle"
    /\ calls < MaxCalls
    /\ calls' = calls + 1
    /\ \E chatID \in Users :
          \/ /\ orders' = SoftDelete(orders, chatID, now)
             /\ ret' = [op |-> "DeleteUserData", task |-> t, user |-> chatID,
                        err |-> "nil", before |-> orders]
          \/ \* the statement fails
             /\ ret' = [op |-> "DeleteUserData", task |-> t, user |-> chatID,
                        err |-> "exec failed", before |-> orders]
             /\ UNCHANGED orders
    /\ afterSave' = FALSE
    /\ UNCHANGED <<now, ticks, redis, pc, loc, saved, delDropped, report>>
    /\ UNCHANGED <<rateVars, texVars, userVars, conn>>

\* chain: what the returned error unwraps to; dbErr (ghost): the error of the
\* query
OrderReturn(t, orderID, err, chain, dbErr, order) ==
    [op |-> "GetOrderByID", task |-> t, id |-> orderID, err |-> err,
     chain |-> chain, dbErr |-> dbErr, order |-> order]

\* SELECT * FROM orders WHERE id = $1
GetOrderByID(t) ==
    /\ pc[t] = "idle"
    /\ calls < MaxCalls
    /\ calls' = calls + 1
    /\ \E orderID \in 1..(MaxOrders + 1) :
          \/ /\ orderID \in 1..Len(orders)
             /\ ret' = OrderReturn(t, orderID, "nil", NotWrapping, "nil",
                                   ScanOrder(orders[orderID]))
          \/ \* sql.ErrNoRows: fmt.Errorf("order not found")
             /\ orderID \notin 1..Len(orders)
             /\ ret' = OrderReturn(t, orderID, "order not found", NotWrapping,
                                   ErrNoRows, ZeroOrder)
          \/ \* the query fails: fmt.Errorf("failed to get order: %w", err)
             \E e \in QueryFailures :
                ret' = OrderReturn(t, orderID, "failed to get order", Wrapping(e),
                                   e, ZeroOrder)
    /\ afterSave' = FALSE
    /\ UNCHANGED <<now, ticks, redis, pc, loc, orders, saved, delDropped, report>>
    /\ UNCHANGED <<rateVars, texVars, userVars, conn>>

----------------------------------------------------------------------------
(* SaveOrder *)

\* chain: what the returned error unwraps to; ctxDone (ghost): the caller's
\* context was cancelled during the call; inserted (ghost): the call inserted
\* its row
SaveReturn(t, err, chain, id, ctxDone, inserted) ==
    [op |-> "SaveOrder", task |-> t, err |-> err, chain |-> chain, id |-> id,
     ctxDone |-> ctxDone, inserted |-> inserted]

\* a failure path that clears the statistics all the same
SaveOrderFailsInvalidating(t, e) ==
    /\ ret' = SaveReturn(t, "failed to save order", Wrapping(e), 0,
                         e = "context canceled", FALSE)
    /\ redis' = RedisDel(redis, StatsKey)
    /\ UNCHANGED <<orders, saved, pc, loc>>

\* if err != nil { return 0, fmt.Errorf("failed to save order: %w", err) }
SaveOrderFails(t, e) ==
    /\ ret' = SaveReturn(t, "failed to save order", Wrapping(e), 0,
                         e = "context canceled", FALSE)
    /\ UNCHANGED <<orders, saved, pc, loc, redis>>

\* QueryRowContext(INSERT ... RETURNING id).Scan(&orderID)
SaveOrder(t) ==
    /\ pc[t] = "idle"
    /\ calls < MaxCalls
    /\ calls' = calls + 1
    /\ afterSave' = FALSE
    /\ \E order \in OrderInputs(now) :
          \/ /\ Len(orders) < MaxOrders
             /\ orders' = Append(orders, InsertedRow(Len(orders) + 1, order, now))
             /\ saved' = Append(saved, order)
             /\ pc' = [pc EXCEPT ![t] = "so_del"]
             /\ loc' = [loc EXCEPT ![t] = [orderID |-> Len(orders) + 1,
                                            hadStats |-> redis[StatsKey].present]]
             /\ ret' = NoRet
             /\ UNCHANGED redis
          \/ \* the insert fails
             \E e \in QueryFailures : SaveOrderFails(t, e)
    /\ UNCHANGED <<now, ticks, delDropped, report>>
    /\ UNCHANGED <<rateVars, texVars, userVars, conn>>

\* s.redis.Del(ctx, "order_stats"); return orderID, nil
SaveOrderInvalidate(t) ==
    /\ pc[t] = "so_del"
    /\ \/ /\ redis' = RedisDel(redis, StatsKey)
          /\ UNCHANGED delDropped
          /\ ret' = SaveReturn(t, "nil", NotWrapping, loc[t].orderID, FALSE, TRUE)
       \/ \* the deletion fails; its error is dropped
          /\ UNCHANGED redis
          /\ delDropped' = TRUE
          /\ ret' = SaveReturn(t, "nil", NotWrapping, loc[t].orderID, FALSE, TRUE)
       \/ \* ctx was cancelled after the insert: the deletion fails with ctx.Err(),
          \* which is dropped
          /\ UNCHANGED redis
          /\ delDropped' = TRUE
          /\ ret' = SaveReturn(t, "nil", NotWrapping, loc[t].orderID, TRUE, TRUE)
    /\ afterSave' = loc[t].hadStats
    /\ pc' = [pc EXCEPT ![t] = "idle"]
    /\ loc' = [loc EXCEPT ![t] = NoLoc]
    /\ UNCHANGED <<now, ticks, calls, orders, saved, report>>
    /\ UNCHANGED <<rateVars, texVars, userVars, conn>>

----------------------------------------------------------------------------
(* OrderStatistics and its JSON form *)

ZeroStats ==
    [TotalOrders |-> 0, TotalRevenue |-> 0, TodayOrders |-> 0, TodayRevenue |-> 0,
     WeekOrders |-> 0, WeekRevenue |-> 0, MonthOrders |-> 0, MonthRevenue |-> 0,
     StatusCounts |-> <<>>]

StatsFields ==
    <<"TotalOrders", "TotalRevenue", "TodayOrders", "TodayRevenue", "WeekOrders",
      "WeekRevenue", "MonthOrders", "MonthRevenue", "StatusCounts">>

\* json.Marshal(stats): one member per exported field
MarshalStats(stats) ==
    [json |-> "object",
     members |-> [i \in 1..Len(StatsFields) |-> <<StatsFields[i], stats[StatsFields[i]]>>]]

\* json.Unmarshal(cached, &stats)
UnmarshalStats(payload) ==
    IF payload.json = "object"
    THEN [err |-> "nil",
          stats |-> [f \in DOMAIN ZeroStats |-> Member(payload, f, ZeroStats[f])]]
    ELSE [err |-> "json", stats |-> ZeroStats]

\* CURRENT_DATE: the start of the day, the clock counting hours
CurrentDate(t) == t - (t % 24)

RECURSIVE SumPrice(_, _)
SumPrice(tbl, ids) ==
    IF ids = {} THEN 0
    ELSE LET i == CHOOSE x \in ids : TRUE
         IN  tbl[i].price + SumPrice(tbl, ids \ {i})

\* SELECT COUNT(*), COALESCE(SUM(price), 0) FROM orders [WHERE created_at >= since]
CountAndRevenue(tbl, since) ==
    LET ids == {i \in 1..Len(tbl) : tbl[i].created_at >= since}
    IN  [count |-> Cardinality(ids), revenue |-> SumPrice(tbl, ids)]

\* SELECT status, COUNT(*) FROM orders GROUP BY status, put into the map
StatusCounts(tbl) ==
    [st \in {tbl[i].status : i \in 1..Len(tbl)} |->
        Cardinality({i \in 1..Len(tbl) : tbl[i].status = st})]

----------------------------------------------------------------------------
(* GetOrderStatistics *)

StatsTTL == 1

\* afterSave (ghost): the call started right after a successful SaveOrder that
\* had found cached statistics; cacheRead (ghost): how the cache read ended
StatsReturn(t, err, stats, fromCache, flag, read) ==
    [op |-> "GetOrderStatistics", task |-> t, err |-> err, stats |-> stats,
     fromCache |-> fromCache, afterSave |-> flag, cacheRead |-> read]

StatsStep(t, next, stats) ==
    /\ pc' = [pc EXCEPT ![t] = next]
    /\ loc' = [loc EXCEPT ![t].stats = stats]
    /\ ret' = NoRet
    /\ UNCHANGED redis

\* a failure path that hands out what the queries before it had filled in
StatsFailPartial(t, err) ==
    /\ ret' = StatsReturn(t, err, loc[t].stats, FALSE, loc[t].afterSave,
                          loc[t].cacheRead)
    /\ pc' = [pc EXCEPT ![t] = "idle"]
    /\ loc' = [loc EXCEPT ![t] = NoLoc]
    /\ UNCHANGED redis

\* return nil, fmt.Errorf("failed to get ... stats: %w", err)
StatsFail(t, err) ==
    /\ ret' = StatsReturn(t, err, ZeroStats, FALSE, loc[t].afterSave,
                          loc[t].cacheRead)
    /\ pc' = [pc EXCEPT ![t] = "idle"]
    /\ loc' = [loc EXCEPT ![t] = NoLoc]
    /\ UNCHANGED redis

\* s.redis.Get(ctx, "order_stats") and json.Unmarshal
GetOrderStatistics(t) ==
    /\ pc[t] = "idle"
    /\ calls < MaxCalls
    /\ calls' = calls + 1
    /\ afterSave' = FALSE
    /\ LET got == RedisGet(redis, StatsKey)
           un  == UnmarshalStats(got.val)
           miss(read) ==
                   /\ pc' = [pc EXCEPT ![t] = "gs_total"]
                   /\ loc' = [loc EXCEPT ![t] = [stats |-> ZeroStats,
                                                  afterSave |-> afterSave,
                                                  cacheRead |-> read]]
                   /\ ret' = NoRet
       IN  \/ IF got.err = "nil" /\ un.err = "nil"
              THEN /\ ret' = StatsReturn(t, "nil", un.stats, TRUE, afterSave, "hit")
                   /\ UNCHANGED <<pc, loc>>
              ELSE miss(IF got.err # "nil" THEN "absent" ELSE "undecodable")
           \/ \* s.redis.Get fails; without an entry that is the error of a miss
              miss(IF got.err = "nil" THEN "error" ELSE "absent")
    /\ UNCHANGED <<now, ticks, redis, orders, saved, delDropped, report>>
    /\ UNCHANGED <<rateVars, texVars, userVars, conn>>

\* SELECT COUNT(*), COALESCE(SUM(price), 0) FROM orders
StatsTotal(t) ==
    /\ pc[t] = "gs_total"
    /\ LET r == CountAndRevenue(orders, 0) IN
          \/ StatsStep(t, "gs_today", [loc[t].stats EXCEPT !.TotalOrders = r.count,
                                                          !.TotalRevenue = r.revenue])
          \/ StatsFail(t, "failed to get total stats")
    /\ UNCHANGED <<now, ticks, calls, orderVars, rateVars, texVars, userVars, conn>>

\* ... WHERE created_at >= CURRENT_DATE
StatsToday(t) ==
    /\ pc[t] = "gs_today"
    /\ LET r == CountAndRevenue(orders, CurrentDate(now)) IN
          \/ StatsStep(t, "gs_week", [loc[t].stats EXCEPT !.TodayOrders = r.count,
                                                         !.TodayRevenue = r.revenue])
          \/ StatsFail(t, "failed to get today's stats")
    /\ UNCHANGED <<now, ticks, calls, orderVars, rateVars, texVars, userVars, conn>>

\* ... WHERE created_at >= CURRENT_DATE - INTERVAL '7 days'
StatsWeek(t) ==
    /\ pc[t] = "gs_week"
    /\ LET r == CountAndRevenue(orders, CurrentDate(now) - 7 * 24) IN
          \/ StatsStep(t, "gs_month", [loc[t].stats EXCEPT !.WeekOrders = r.count,
                                                          !.WeekRevenue = r.revenue])
          \/ StatsFail(t, "failed to get week's stats")
    /\ UNCHANGED <<now, ticks, calls, orderVars, rateVars, texVars, userVars, conn>>

\* ... WHERE created_at >= CURRENT_DATE - INTERVAL '30 days'
StatsMonth(t) ==
    /\ pc[t] = "gs_month"
    /\ LET r == CountAndRevenue(orders, CurrentDate(now) - 30 * 24) IN
          \/ StatsStep(t, "gs_status", [loc[t].stats EXCEPT !.MonthOrders = r.count,
                                                           !.MonthRevenue = r.revenue])
          \/ StatsFail(t, "failed to get month's stats")
    /\ UNCHANGED <<now, ticks, calls, orderVars, rateVars, texVars, userVars, conn>>

\* SELECT status, COUNT(*) ... GROUP BY status
StatsStatus(t) ==
    /\ pc[t] = "gs_status"
    /\ \/ StatsStep(t, "gs_set", [loc[t].stats EXCEPT !.StatusCounts = StatusCounts(orders)])
       \/ StatsFail(t, "failed to get status counts")
    /\ UNCHANGED <<now, ticks, calls, orderVars, rateVars, texVars, userVars, conn>>

\* a cache write whose failure fails the call
StatsCacheStrict(t) ==
    /\ pc[t] = "gs_set"
    /\ \/ /\ redis' = RedisSet(redis, StatsKey, MarshalStats(loc[t].stats), StatsTTL, now)
          /\ ret' = StatsReturn(t, "nil", loc[t].stats, FALSE, loc[t].afterSave,
                                loc[t].cacheRead)
       \/ /\ UNCHANGED redis
          /\ ret' = StatsReturn(t, "failed to cache stats", ZeroStats, FALSE,
                                loc[t].afterSave, loc[t].cacheRead)
    /\ pc' = [pc EXCEPT ![t] = "idle"]
    /\ loc' = [loc EXCEPT ![t] = NoLoc]
    /\ UNCHANGED <<now, ticks, calls, orderVars, rateVars, texVars, userVars, conn>>

\* s.redis.Set(ctx, cacheKey, data, 1*time.Hour); return stats, nil
StatsCache(t) ==
    /\ pc[t] = "gs_set"
    /\ \/ redis' = RedisSet(redis, StatsKey, MarshalStats(loc[t].stats), StatsTTL, now)
       \/ \* s.redis.Set fails; its error is dropped
          UNCHANGED redis
    /\ ret' = StatsReturn(t, "nil", loc[t].stats, FALSE, loc[t].afterSave,
                          loc[t].cacheRead)
    /\ pc' = [pc EXCEPT ![t] = "idle"]
    /\ loc' = [loc EXCEPT ![t] = NoLoc]
    /\ UNCHANGED <<now, ticks, calls, orderVars, rateVars, texVars, userVars, conn>>

----------------------------------------------------------------------------
(* UpdateOrderStatus: exports every order to the spreadsheet; it writes      *)
(* neither the orders table nor the cache.                                  *)

Statuses == {"new", "confirmed"}

UpdateReturn(t, orderID, status, err) ==
    [op |-> "UpdateOrderStatus", task |-> t, id |-> orderID, status |-> status,
     err |-> err]

\* SELECT * FROM orders ORDER BY created_at DESC
AllOrderIDs(tbl) == 1..Len(tbl)

UpdateOrderStatus(t) ==
    /\ pc[t] = "idle"
    /\ calls < MaxCalls
    /\ calls' = calls + 1
    /\ afterSave' = FALSE
    /\ \E orderID \in 1..(MaxOrders + 1), status \in Statuses :
          \/ \* the query fails
             /\ ret' = UpdateReturn(t, orderID, status, "failed to fetch orders")
             /\ UNCHANGED report
          \/ \* opening, filling or saving the workbook fails
             /\ ret' = UpdateReturn(t, orderID, status, "failed to save Excel file")
             /\ UNCHANGED report
          \/ \E s \in NewestFirst(orders, AllOrderIDs(orders)) :
                /\ report' = [i \in DOMAIN s |-> ScanOrder(orders[s[i]])]
                /\ ret' = UpdateReturn(t, orderID, status, "nil")
    /\ UNCHANGED <<now, ticks, redis, pc, loc, orders, saved, delDropped>>
    /\ UNCHANGED <<rateVars, texVars, userVars, conn>>

----------------------------------------------------------------------------
(* SaveUserAgreement, GetUserAgreement *)

\* an insert that leaves an existing row as it is
InsertAgreementOnce(tbl, userID, phone) ==
    IF \E r \in tbl : r.user_id = userID THEN tbl
    ELSE tbl \cup {[user_id |-> userID, agreed_to_tpa |-> TRUE, phone_number |-> phone]}

\* INSERT INTO users ... ON CONFLICT (user_id) DO UPDATE SET agreed_to_tpa = TRUE,
\* phone_number = $2
UpsertAgreement(tbl, userID, phone) ==
    IF \E r \in tbl : r.user_id = userID
    THEN {IF r.user_id = userID
          THEN [r EXCEPT !.agreed_to_tpa = TRUE, !.phone_number = phone]
          ELSE r : r \in tbl}
    ELSE tbl \cup {[user_id |-> userID, agreed_to_tpa |-> TRUE, phone_number |-> phone]}

SaveUserAgreement(t) ==
    /\ pc[t] = "idle"
    /\ calls < MaxCalls
    /\ calls' = calls + 1
    /\ \E userID \in Users, phone \in Phones :
          \/ /\ users' = UpsertAgreement(users, userID, phone)
             /\ agreeLog' = [agreeLog EXCEPT ![userID] = Append(@, phone)]
             /\ ret' = [op |-> "SaveUserAgreement", task |-> t, user |-> userID,
                        err |-> "nil"]
          \/ \* the statement fails
             /\ ret' = [op |-> "SaveUserAgreement", task |-> t, user |-> userID,
                        err |-> "exec failed"]
             /\ UNCHANGED <<users, agreeLog>>
    /\ UNCHANGED <<now, ticks, redis, pc, loc, conn>>
    /\ UNCHANGED <<rateVars, texVars, orderVars>>

\* SELECT agreed_to_tpa, phone_number FROM users WHERE user_id = $1, scanned
AgreementReturn(t, userID, err, agreed, phone) ==
    [op |-> "GetUserAgreement", task |-> t, user |-> userID, err |-> err,
     agreed |-> agreed, phone |-> phone]

GetUserAgreement(t) ==
    /\ pc[t] = "idle"
    /\ calls < MaxCalls
    /\ calls' = calls + 1
    /\ \E userID \in Users :
          LET rows == {r \in users : r.user_id = userID} IN
          \/ \* sql.ErrNoRows
             /\ rows = {}
             /\ ret' = AgreementReturn(t, userID, "nil", FALSE, "")
          \/ \E r \in rows :
                ret' = AgreementReturn(t, userID, "nil", r.agreed_to_tpa, r.phone_number)
          \/ \* the query fails: agreed and phone keep their zero values
             ret' = AgreementReturn(t, userID, "query failed", FALSE, "")
    /\ UNCHANGED <<now, ticks, redis, pc, loc, conn>>
    /\ UNCHANGED <<rateVars, texVars, orderVars, userVars>>

----------------------------------------------------------------------------
(* NewPostgresStorage.  Durations are in quarters of a second.              *)

\* a policy without a deadline: the library reads 0 as "never give up"
NoMaxElapsedTime == 0

\* retryPolicy.MaxElapsedTime = 2 * time.Minute
MaxElapsedTime == 480

\* retryPolicy.MaxInterval = 15 * time.Second
MaxInterval == 60

\* backoff.NewExponentialBackOff(): the first interval is 500 ms
InitialInterval == 2

\* The clock of the retry loop is followed up to here
ElapsedCap == 600

\* How long one connect-and-ping attempt takes
AttemptDurations == {0, 8}

Min(a, b) == IF a < b THEN a ELSE b

\* the next interval: 1.5 times the current one, capped by MaxInterval
IncrementInterval(interval) == Min((interval * 3) \div 2, MaxInterval)

\* the randomized interval: within half of the current interval around it
RandomIntervals(interval) == {interval \div 2, interval, (interval * 3) \div 2}

\* NextBackOff gives up when the elapsed time plus the next wait exceeds the
\* deadline
BackOffStops(elapsed, next) ==
    MaxElapsedTime # 0 /\ elapsed + next > MaxElapsedTime

Connecting ==
    [pc |-> "attempt", elapsed |-> 0, interval |-> InitialInterval, wait |-> 0,
     handle |-> FALSE, err |-> "nil"]

\* One run of the operation: sqlx.ConnectContext, then db.PingContext
ConnAttempt ==
    /\ conn.pc = "attempt"
    /\ \E d \in AttemptDurations :
          LET elapsed == Min(conn.elapsed + d, ElapsedCap) IN
          \/ \* connected and pinged: the pool is configured and returned
             conn' = [conn EXCEPT !.pc = "done", !.elapsed = elapsed,
                                  !.handle = TRUE, !.err = "nil"]
          \/ \E cause \in {"connect", "ping"}, next \in RandomIntervals(conn.interval) :
                IF BackOffStops(elapsed, next)
                THEN conn' = [conn EXCEPT !.pc = "done", !.elapsed = elapsed,
                                          !.wait = next,
                                          !.err = "failed to connect after retries"]
                ELSE conn' = [conn EXCEPT !.pc = "sleep", !.elapsed = elapsed,
                                          !.wait = next, !.err = cause,
                                          !.interval = IncrementInterval(@)]
    /\ UNCHANGED <<now, ticks, redis, pc, loc, ret, calls>>
    /\ UNCHANGED <<rateVars, texVars, orderVars, userVars>>

\* The wait before the next attempt
ConnSleep ==
    /\ conn.pc = "sleep"
    /\ conn' = [conn EXCEPT !.pc = "attempt",
                            !.elapsed = Min(@ + conn.wait, ElapsedCap)]
    /\ UNCHANGED <<now, ticks, redis, pc, loc, ret, calls>>
    /\ UNCHANGED <<rateVars, texVars, orderVars, userVars>>

----------------------------------------------------------------------------
(* The clock.  The two cache round-trips of one CheckRateLimit call fall    *)
(* within one clock unit.                                                  *)

AdvanceClock(d) ==
    /\ ticks < MaxTicks
    /\ \A t \in Tasks : pc[t] # "rl_expire"
    /\ now' = now + d
    /\ ticks' = ticks + 1
    /\ redis' = RedisSweep(redis, now + d)
    /\ LET gone(k) == redis[k].present /\ ~RedisSweep(redis, now + d)[k].present IN
          /\ winHits' = [k \in RateKeys |-> IF gone(k) THEN 0 ELSE winHits[k]]
          /\ winClean' = [k \in RateKeys |-> IF gone(k) THEN TRUE ELSE winClean[k]]
          /\ firstHit' = [k \in RateKeys |-> IF gone(k) THEN 0 ELSE firstHit[k]]
          /\ winPass' = [k \in RateKeys |-> IF gone(k) THEN 0 ELSE winPass[k]]
          /\ popBy' = [id \in TextureIDs |->
                          IF gone(TextureKey(id)) THEN NoRow ELSE popBy[id]]
    /\ ret' = NoRet
    /\ UNCHANGED <<limit, window, passLog, pc, loc, calls, textures, orderVars,
                   userVars, conn>>

----------------------------------------------------------------------------
(* Specifications *)

TasksIdle ==
    /\ now = 0
    /\ ticks = 0
    /\ pc = [t \in Tasks |-> "idle"]
    /\ loc = [t \in Tasks |-> NoLoc]
    /\ ret = NoRet
    /\ calls = 0

OrdersEmpty ==
    /\ orders = <<>>
    /\ saved = <<>>
    /\ afterSave = FALSE
    /\ delDropped = FALSE
    /\ report = <<>>
    /\ users = {}
    /\ agreeLog = [u \in Users |-> <<>>]
    /\ conn = Connected

RateGhostInit ==
    /\ winHits = [k \in RateKeys |-> 0]
    /\ winClean = [k \in RateKeys |-> TRUE]
    /\ firstHit = [k \in RateKeys |-> 0]
    /\ winPass = [k \in RateKeys |-> 0]
    /\ passLog = [k \in RateKeys |-> <<>>]

\* The rate limiter, called with one limit and one window
InitRate ==
    /\ TasksIdle
    /\ redis = [k \in CacheKeys |-> NoEntry]
    /\ limit \in 0..MaxLimit
    /\ window \in 1..MaxWindow
    /\ RateGhostInit
    /\ textures = [id \in TextureIDs |-> NoRow]
    /\ popBy = [id \in TextureIDs |-> NoRow]
    /\ OrdersEmpty

NextRate ==
    \/ \E t \in Tasks : CheckRateLimit(t)
    \/ \E t \in Tasks : CheckRateLimitExpire(t)
    \/ AdvanceClock(1)

SpecRate == InitRate /\ [][NextRate]_vars

\* What the cache may hold for a texture when the storage is constructed
InitialTextureEntries(id) ==
    {NoEntry}
    \cup {[present |-> TRUE, val |-> v, exp |-> NoExpiry] :
             v \in {GarbagePayload, EmptyObjectPayload}
                   \cup {MarshalTexture(x) : x \in TextureRows(id)}}

\* The texture read path over any catalog and any cache content
InitTex ==
    /\ TasksIdle
    /\ textures \in {f \in [TextureIDs -> {NoRow} \cup UNION {TextureRows(id) : id \in TextureIDs}] :
                        \A id \in TextureIDs : f[id] \in {NoRow} \cup TextureRows(id)}
    /\ redis \in {f \in [CacheKeys -> {NoEntry} \cup UNION {InitialTextureEntries(id) : id \in TextureIDs}] :
                     /\ \A k \in RateKeys : f[k] = NoEntry
                     /\ \A id \in TextureIDs : f[TextureKey(id)] \in InitialTextureEntries(id)}
    /\ popBy = [id \in TextureIDs |-> NoRow]
    /\ limit = 0
    /\ window = 1
    /\ RateGhostInit
    /\ OrdersEmpty

NextTex ==
    \/ \E t \in Tasks : GetTextureByID(t)
    \/ \E d \in {1, TextureTTL - 1} : AdvanceClock(d)

SpecTex == InitTex /\ [][NextTex]_vars

\* The handlers called by one task at a time
SeqTasks == {1}

InitOrders ==
    /\ TasksIdle
    /\ redis = [k \in CacheKeys |-> NoEntry]
    /\ limit = 0
    /\ window = 1
    /\ RateGhostInit
    /\ textures = [id \in TextureIDs |-> NoRow]
    /\ popBy = [id \in TextureIDs |-> NoRow]
    /\ OrdersEmpty

\* The entity store: orders saved, read and soft-deleted
NextStore ==
    \/ \E t \in SeqTasks : SaveOrder(t)
    \/ \E t \in SeqTasks : SaveOrderInvalidate(t)
    \/ \E t \in SeqTasks : GetOrderByID(t)
    \/ \E t \in SeqTasks : GetUserOrders(t)
    \/ \E t \in SeqTasks : DeleteUserData(t)
    \/ ticks < MaxOrderTicks /\ AdvanceClock(1)

SpecStore == InitOrders /\ [][NextStore]_vars

\* The statistics read path and the write that invalidates it
NextStats ==
    \/ \E t \in SeqTasks : SaveOrder(t)
    \/ \E t \in SeqTasks : SaveOrderInvalidate(t)
    \/ \E t \in SeqTasks : GetOrderStatistics(t)
    \/ \E t \in SeqTasks : StatsTotal(t)
    \/ \E t \in SeqTasks : StatsToday(t)
    \/ \E t \in SeqTasks : StatsWeek(t)
    \/ \E t \in SeqTasks : StatsMonth(t)
    \/ \E t \in SeqTasks : StatsStatus(t)
    \/ \E t \in SeqTasks : StatsCache(t)
    \/ \E d \in {1, 24} : ticks < MaxStatsTicks /\ AdvanceClock(d)

SpecStats == InitOrders /\ [][NextStats]_vars

\* Orders saved and statistics read by independent tasks
NextRace ==
    \/ \E t \in Tasks : SaveOrder(t)
    \/ \E t \in Tasks : SaveOrderInvalidate(t)
    \/ \E t \in Tasks : GetOrderStatistics(t)
    \/ \E t \in Tasks : StatsTotal(t)
    \/ \E t \in Tasks : StatsToday(t)
    \/ \E t \in Tasks : StatsWeek(t)
    \/ \E t \in Tasks : StatsMonth(t)
    \/ \E t \in Tasks : StatsStatus(t)
    \/ \E t \in Tasks : StatsCache(t)

SpecRace == InitOrders /\ [][NextRace]_vars

\* What the cache may hold for the statistics when the storage is constructed
InitialStatsEntries ==
    {NoEntry}
    \cup {[present |-> TRUE, val |-> v, exp |-> NoExpiry] :
             v \in {GarbagePayload, MarshalStats(ZeroStats)}}

\* The two cached reads over any catalog and any cache content
InitReads ==
    /\ TasksIdle
    /\ textures \in {f \in [TextureIDs -> {NoRow} \cup UNION {TextureRows(id) : id \in TextureIDs}] :
                        \A id \in TextureIDs : f[id] \in {NoRow} \cup TextureRows(id)}
    /\ redis \in {f \in [CacheKeys -> InitialStatsEntries
                                        \cup UNION {InitialTextureEntries(id) : id \in TextureIDs}] :
                     /\ \A k \in RateKeys : f[k] = NoEntry
                     /\ f[StatsKey] \in InitialStatsEntries
                     /\ \A id \in TextureIDs : f[TextureKey(id)] \in InitialTextureEntries(id)}
    /\ popBy = [id \in TextureIDs |-> NoRow]
    /\ limit = 0
    /\ window = 1
    /\ RateGhostInit
    /\ OrdersEmpty

NextReads ==
    \/ \E t \in SeqTasks : GetTextureByID(t)
    \/ \E t \in SeqTasks : SaveOrder(t)
    \/ \E t \in SeqTasks : SaveOrderInvalidate(t)
    \/ \E t \in SeqTasks : GetOrderStatistics(t)
    \/ \E t \in SeqTasks : StatsTotal(t)
    \/ \E t \in SeqTasks : StatsToday(t)
    \/ \E t \in SeqTasks : StatsWeek(t)
    \/ \E t \in SeqTasks : StatsMonth(t)
    \/ \E t \in SeqTasks : StatsStatus(t)
    \/ \E t \in SeqTasks : StatsCache(t)

SpecReads == InitReads /\ [][NextReads]_vars

\* The status update next to the statistics read path
NextUpdate ==
    \/ \E t \in SeqTasks : SaveOrder(t)
    \/ \E t \in SeqTasks : SaveOrderInvalidate(t)
    \/ \E t \in SeqTasks : GetOrderStatistics(t)
    \/ \E t \in SeqTasks : StatsTotal(t)
    \/ \E t \in SeqTasks : StatsToday(t)
    \/ \E t \in SeqTasks : StatsWeek(t)
    \/ \E t \in SeqTasks : StatsMonth(t)
    \/ \E t \in SeqTasks : StatsStatus(t)
    \/ \E t \in SeqTasks : StatsCache(t)
    \/ \E t \in SeqTasks : UpdateOrderStatus(t)

SpecUpdate == InitOrders /\ [][NextUpdate]_vars

\* The user agreements
NextUsers ==
    \/ \E t \in SeqTasks : SaveUserAgreement(t)
    \/ \E t \in SeqTasks : GetUserAgreement(t)

SpecUsers == InitOrders /\ [][NextUsers]_vars

\* Connection establishment; the retry loop keeps running until it returns
InitConn ==
    /\ TasksIdle
    /\ redis = [k \in CacheKeys |-> NoEntry]
    /\ limit = 0
    /\ window = 1
    /\ RateGhostInit
    /\ textures = [id \in TextureIDs |-> NoRow]
    /\ popBy = [id \in TextureIDs |-> NoRow]
    /\ orders = <<>>
    /\ saved = <<>>
    /\ afterSave = FALSE
    /\ delDropped = FALSE
    /\ report = <<>>
    /\ users = {}
    /\ agreeLog = [u \in Users |-> <<>>]
    /\ conn = Connecting

NextConn ==
    \/ ConnAttempt
    \/ ConnSleep

SpecConn == InitConn /\ [][NextConn]_vars /\ WF_vars(NextConn)

----------------------------------------------------------------------------
(* Claims *)

\* C1: in a window that started from an absent counter and in which no call
\* failed, the k-th CheckRateLimit call on a key returns limited = (k > limit):
\* a limit of N permits exactly N actions per window.
C1_LimitPermitsExactlyN ==
    (ret.op = "CheckRateLimit" /\ ret.err = "nil" /\ winClean[ret.key])
        => (ret.limited <=> ret.idx > limit)

\* C1 witness: with limit 2 the third call of a window is the first one refused.
C1_Witness ==
    /\ ret.op = "CheckRateLimit" /\ ret.err = "nil" /\ winClean[ret.key]
    /\ limit = 2 /\ ret.idx = 3 /\ ret.limited

\* C3 as stated: a GetTextureByID call that finds the entry an earlier call
\* cached (time-to-live not expired) performs no store query and returns the
\* texture that earlier call returned.
C3_SecondReadSkipsStore ==
    (ret.op = "GetTextureByID" /\ ret.wasPopulated)
        => (~ret.dbQueried /\ ret.err = "nil" /\ ret.tex = ret.popTex)

\* C3 amended: the same, for a call whose cache read does not fail.
C3_CacheHitSkipsStore ==
    (ret.op = "GetTextureByID" /\ ret.wasPopulated /\ ret.cacheRead # "error")
        => (~ret.dbQueried /\ ret.err = "nil" /\ ret.tex = ret.popTex)

\* C3 witness: a second read served from the entry the first read cached.
C3_Witness ==
    /\ ret.op = "GetTextureByID" /\ ret.wasPopulated /\ ret.cacheRead = "hit"
    /\ ~ret.dbQueried /\ ret.tex = textures[ret.id] /\ ret.tex.InStock

\* What a store read of a row can return: the row, or an error and no texture.
StoreOutcomes(row) ==
    {<<"failed to get texture", ZeroTexture>>}
    \cup (IF row = NoRow THEN {<<"texture not found", ZeroTexture>>}
          ELSE IF row.PricePerDM2 <= 0 THEN {<<"invalid price", ZeroTexture>>}
          ELSE {<<"nil", row>>})

\* C4: GetTextureByID never returns a cached texture whose price is <= 0; a
\* cache entry that decodes to such a texture is a miss: the store is queried
\* and the result is what the store row alone determines.
C4_InvalidCachedPriceIsMiss ==
    ret.op = "GetTextureByID" =>
        /\ (~ret.dbQueried => ret.err = "nil" /\ ret.tex.PricePerDM2 > 0)
        /\ (ret.cacheRead = "invalid" =>
                /\ ret.dbQueried
                /\ <<ret.err, ret.tex>> \in StoreOutcomes(textures[ret.id]))

\* C4 witness: the cache held a non-positive price and the store's row came back.
C4_Witness ==
    /\ ret.op = "GetTextureByID" /\ ret.cacheRead = "invalid"
    /\ ret.dbQueried /\ ret.err = "nil" /\ ret.tex.PricePerDM2 > 0

\* C2 as stated: the GetOrderStatistics call that follows a successful
\* SaveOrder which had found cached statistics does not answer from the cache,
\* and its statistics count the new order.
C2_SaveOrderForcesRecompute ==
    (ret.op = "GetOrderStatistics" /\ ret.afterSave /\ ret.err = "nil")
        => (~ret.fromCache /\ ret.stats.TotalOrders = Len(orders))

\* C5: NewPostgresStorage always returns: with a handle and no error as soon
\* as an attempt succeeds, otherwise with a fatal error and no handle, and that
\* only when the next wait would pass the maximum elapsed time of two minutes
\* (480 quarters of a second); it never waits past that time.
C5_ConnectTerminates ==
    /\ <>(conn.pc = "done")
    /\ [](conn.pc = "done" =>
            /\ conn.handle <=> conn.err = "nil"
            /\ ~conn.handle => /\ conn.err = "failed to connect after retries"
                               /\ conn.elapsed + conn.wait > 480)
    /\ [](conn.pc = "sleep" => conn.elapsed + conn.wait <= 480)

\* C5 witness: the store failed at least twice and the third or a later
\* attempt returned the handle.
C5_Witness ==
    conn.pc = "done" /\ conn.handle /\ conn.interval >= 4

\* C5 witness of the fatal end: every attempt failed until the budget was used.
C5_WitnessFatal ==
    conn.pc = "done" /\ ~conn.handle /\ conn.elapsed > 400

\* C6 as stated: a DeleteUserData(u) call made when every order of u is already
\* soft-deleted changes no order row, its deletion timestamp included, and
\* after any DeleteUserData(u) no order of u is visible to GetUserOrders(u).
C6_DeleteUserDataIdempotent ==
    (ret.op = "DeleteUserData" /\ ret.err = "nil") =>
        /\ {i \in 1..Len(orders) :
               orders[i].user_id = ret.user /\ orders[i].deleted_at = Null} = {}
        /\ (\A i \in 1..Len(ret.before) :
               ret.before[i].user_id = ret.user => ret.before[i].deleted_at # Null)
           => orders = ret.before

\* C7: a successful GetUserOrders(u) returns exactly the orders of u whose
\* deletion timestamp is unset, each once, newest first by creation timestamp;
\* the only error is a failed query, never an empty result.
C7_UserOrdersLiveNewestFirst ==
    ret.op = "GetUserOrders" =>
        /\ ret.err \in {"nil", "query failed"}
        /\ ret.err = "nil" =>
              LET n == Len(ret.orders)
                  live == {i \in 1..Len(orders) :
                              orders[i].user_id = ret.user /\ orders[i].deleted_at = Null}
              IN  /\ {ret.orders[i].ID : i \in 1..n} = live
                  /\ n = Cardinality(live)
                  /\ \A i \in 1..n :
                        ret.orders[i].CreatedAt = orders[ret.orders[i].ID].created_at
                  /\ \A i, j \in 1..n :
                        i < j => ret.orders[i].CreatedAt >= ret.orders[j].CreatedAt

\* C7 witness: one live order is returned while another order of the same user
\* is soft-deleted.
C7_Witness ==
    /\ ret.op = "GetUserOrders" /\ ret.err = "nil" /\ Len(ret.orders) = 1
    /\ \E i \in 1..Len(orders) :
          orders[i].user_id = ret.user /\ orders[i].deleted_at # Null

\* C7 witness of the order: the order saved later carries the older creation
\* timestamp and is returned last.
C7_WitnessNewestFirst ==
    /\ ret.op = "GetUserOrders" /\ ret.err = "nil" /\ Len(ret.orders) = 2
    /\ ret.orders[1].ID < ret.orders[2].ID
    /\ ret.orders[1].CreatedAt > ret.orders[2].CreatedAt

\* C8 as stated: GetOrderByID(id) returns the order SaveOrder was called with,
\* equal in every field except the id and the timestamps.
C8_SaveThenGetRoundTrip ==
    (ret.op = "GetOrderByID" /\ ret.err = "nil") =>
        \A f \in DOMAIN ZeroOrder \ {"ID", "CreatedAt", "UpdatedAt"} :
            ret.order[f] = saved[ret.id][f]

\* C9 as stated: the key's expiry is fixed at the first hit plus the window for
\* as long as the counter exists (so the counter is gone once the window has
\* elapsed), and a call that starts a window (count 1) is not limited when
\* limit >= 1.
C9_WindowFixedByFirstHit ==
    /\ \A k \in RateKeys :
          (redis[k].present /\ ~InFlight(k)) => redis[k].exp = firstHit[k] + window
    /\ (ret.op = "CheckRateLimit" /\ ret.err = "nil" /\ ret.count = 1 /\ limit >= 1)
          => ~ret.limited

\* C10: the users table holds at most one row per user; GetUserAgreement(u)
\* returns (false, "") without error when no SaveUserAgreement(u, _) succeeded
\* and (true, p) for the phone p of the latest one otherwise; its only error is
\* a failed query.
C10_AgreementUpsert ==
    /\ \A u \in Users : Cardinality({r \in users : r.user_id = u}) <= 1
    /\ ret.op = "GetUserAgreement" =>
          /\ ret.err \in {"nil", "query failed"}
          /\ ret.err = "nil" =>
                IF agreeLog[ret.user] = <<>>
                THEN ~ret.agreed /\ ret.phone = ""
                ELSE /\ ret.agreed
                     /\ ret.phone = agreeLog[ret.user][Len(agreeLog[ret.user])]

\* C10 witness: the agreement read back carries the second, different phone.
C10_Witness ==
    /\ ret.op = "GetUserAgreement" /\ ret.err = "nil" /\ ret.agreed
    /\ Len(agreeLog[ret.user]) = 2
    /\ agreeLog[ret.user][1] # agreeLog[ret.user][2]
    /\ ret.phone = agreeLog[ret.user][2]

\* C11 as stated: the error of a point lookup, GetOrderByID or GetTextureByID,
\* tests true for the not-found kind (errors.Is with sql.ErrNoRows) exactly when
\* the query found no row.
C11_NotFoundDistinctByKind ==
    (ret.op \in {"GetOrderByID", "GetTextureByID"} /\ ret.err # "nil")
        => (ErrorsIs(ret.chain, ErrNoRows) <=> ret.dbErr = ErrNoRows)

\* C12: within one SaveOrder call the insert comes first and leaves the cache
\* alone; the 'order_stats' entry is deleted only by a call whose row is in the
\* table; and a SaveOrder whose insert fails returns "failed to save order" in
\* the step of the one failed attempt, with the table and the cache unchanged.
C12_InvalidateAfterOwnInsert ==
    [][/\ \A t \in Tasks :
             (pc[t] # "so_del" /\ pc'[t] = "so_del") =>
                 /\ Len(orders') = Len(orders) + 1
                 /\ loc'[t].orderID = Len(orders')
                 /\ redis' = redis
       /\ (redis[StatsKey].present /\ ~redis'[StatsKey].present /\ now' = now) =>
             \E t \in Tasks : /\ pc[t] = "so_del" /\ pc'[t] = "idle"
                               /\ loc[t].orderID \in 1..Len(orders)
                               /\ orders' = orders
       /\ (ret'.op = "SaveOrder" /\ ret'.err # "nil") =>
             /\ ret'.err = "failed to save order"
             /\ pc[ret'.task] = "idle" /\ pc' = pc
             /\ orders' = orders
             /\ redis' = redis]_vars

\* C12 witness: a SaveOrder that found cached statistics has inserted its row,
\* deleted the entry and returned.
C12_Witness ==
    /\ ret.op = "SaveOrder" /\ ret.err = "nil" /\ afterSave
    /\ ret.id = Len(orders) /\ ~redis[StatsKey].present

\* C12 witness of the failure: the insert failed and the cached statistics are
\* still there.
C12_WitnessInsertFailed ==
    /\ ret.op = "SaveOrder" /\ ret.err = "failed to save order"
    /\ redis[StatsKey].present /\ Len(orders) = 1

\* The composite the five queries give over a table, the day-bound query run at
\* time t0 and the others at time t.
StatsOf(tbl, t0, t) ==
    [TotalOrders |-> CountAndRevenue(tbl, 0).count,
     TotalRevenue |-> CountAndRevenue(tbl, 0).revenue,
     TodayOrders |-> CountAndRevenue(tbl, CurrentDate(t0)).count,
     TodayRevenue |-> CountAndRevenue(tbl, CurrentDate(t0)).revenue,
     WeekOrders |-> CountAndRevenue(tbl, CurrentDate(t) - 7 * 24).count,
     WeekRevenue |-> CountAndRevenue(tbl, CurrentDate(t) - 7 * 24).revenue,
     MonthOrders |-> CountAndRevenue(tbl, CurrentDate(t) - 30 * 24).count,
     MonthRevenue |-> CountAndRevenue(tbl, CurrentDate(t) - 30 * 24).revenue,
     StatusCounts |-> StatusCounts(tbl)]

\* Statistics with every one of the five query results in them
CompleteStats(stats) == \E t0 \in 0..now : stats = StatsOf(orders, t0, now)

\* C13: GetOrderStatistics never returns or caches partial statistics: a call
\* in which one of the five queries fails returns the error and no statistics
\* and leaves the cache as it was; statistics returned after a miss, and every
\* entry written to 'order_stats', hold the results of all five queries.
C13_NoPartialStatistics ==
    /\ [](ret.op = "GetOrderStatistics" =>
            /\ ret.err # "nil" => ret.stats = ZeroStats /\ ~ret.fromCache
            /\ (ret.err = "nil" /\ ~ret.fromCache) => CompleteStats(ret.stats))
    /\ [][/\ (ret'.op = "GetOrderStatistics" /\ ret'.err # "nil") => redis' = redis
          /\ (redis'[StatsKey].present /\ redis'[StatsKey] # redis[StatsKey]) =>
                \E t \in Tasks :
                   /\ pc[t] = "gs_set"
                   /\ redis'[StatsKey].val = MarshalStats(loc[t].stats)
                   /\ CompleteStats(loc[t].stats)]_vars

\* C13 witness: with an order in the table the last of the five queries failed;
\* the call returned the error and the cache has no entry.
C13_Witness ==
    /\ ret.op = "GetOrderStatistics" /\ ret.err = "failed to get status counts"
    /\ Len(orders) >= 1 /\ ~redis[StatsKey].present

\* C14: GetTextureByID never writes a texture with price <= 0 into the cache:
\* when the loaded row has a non-positive price the call returns the error
\* "invalid price" and no texture and leaves the cache as it was, and every
\* entry a call writes decodes to the store's row with a price > 0.
C14_InvalidPriceNeverCached ==
    [][ret'.op = "GetTextureByID" =>
          LET id == ret'.id
              row == textures[id]
              old == redis[TextureKey(id)]
              new == redis'[TextureKey(id)]
          IN  /\ (ret'.dbQueried /\ ret'.dbErr = "nil" /\ row.PricePerDM2 <= 0) =>
                    /\ ret'.err = "invalid price"
                    /\ ret'.tex = ZeroTexture
                    /\ redis' = redis
              /\ new # old =>
                    /\ new.present
                    /\ UnmarshalTexture(new.val).tex = row
                    /\ row.PricePerDM2 > 0]_vars

\* C14 witness: the store holds a texture priced 0; the call returned the error
\* and the cache has no entry for it.
C14_Witness ==
    /\ ret.op = "GetTextureByID" /\ ret.err = "invalid price"
    /\ ret.cacheRead = "absent"
    /\ textures[ret.id].PricePerDM2 = 0
    /\ ~redis[TextureKey(ret.id)].present

\* C15 as stated: a SaveOrder whose context was cancelled during the call
\* reports an error, and does not end with its row inserted while the
\* 'order_stats' entry is still cached.
C15_CancelledSaveOrderNoPartialMutation ==
    (ret.op = "SaveOrder" /\ ret.ctxDone) =>
        /\ ret.err # "nil"
        /\ ~(ret.inserted /\ redis[StatsKey].present)

\* C16: under any interleaving of CheckRateLimit calls of independent tasks on
\* one key, at most limit calls of a window return limited = false without
\* error, and every call whose INCR succeeded saw the count of its own INCR in
\* the window: no two calls see the same count and no increment is lost.
C16_ConcurrentCallsBounded ==
    /\ \A k \in RateKeys :
          /\ winPass[k] <= limit
          /\ redis[k].present => redis[k].val = winHits[k]
    /\ (ret.op = "CheckRateLimit" /\ ret.err \in {"nil", "expire"})
          => ret.count = ret.idx

\* C16 witness: with limit 2, the second call on a key returned unlimited while
\* the first call, of the other task, is still between its INCR and its EXPIRE.
C16_Witness ==
    /\ ret.op = "CheckRateLimit" /\ ret.err = "nil" /\ ret.count = 2
    /\ ~ret.limited /\ limit = 2
    /\ \E t \in Tasks \ {ret.task} : pc[t] = "rl_expire" /\ loc[t].key = ret.key

\* C17 as stated: after a successful UpdateOrderStatus the 'order_stats' cache
\* entry is absent.
C17_UpdateStatusInvalidatesStats ==
    (ret.op = "UpdateOrderStatus" /\ ret.err = "nil") => ~redis[StatsKey].present

\* C18 as stated: no order whose deletion timestamp is set is returned by
\* GetOrderByID or by GetUserOrders, and no row is ever removed from the table.
C18_SoftDeletedExcluded ==
    /\ (ret.op = "GetOrderByID" /\ ret.err = "nil")
          => orders[ret.id].deleted_at = Null
    /\ (ret.op = "GetUserOrders" /\ ret.err = "nil")
          => \A i \in 1..Len(ret.orders) : orders[ret.orders[i].ID].deleted_at = Null
    /\ Len(orders) = Len(saved)

\* The calls on key k that returned limited = false in the interval [s, s + w]
PassesWithin(k, s, w) ==
    Cardinality({i \in 1..Len(passLog[k]) : passLog[k][i] \in s..(s + w)})

\* C19: for one key, limit N and window W, every time interval of length W
\* holds at most 2 * N calls that returned limited = false, under any timing of
\* the calls.
C19_BurstAtMostTwiceLimit ==
    \A k \in RateKeys, s \in 0..now : PassesWithin(k, s, window) <= 2 * limit

\* C19 witness: with limit 2 and window 1, two calls at the end of one window
\* and two at the start of the next: 4 = 2 * limit calls in one interval.
C19_Witness ==
    /\ limit = 2 /\ window = 1
    /\ \E k \in RateKeys, s \in 0..now : PassesWithin(k, s, window) = 4

\* C20 as stated: once every call has returned, and no SaveOrder failed to
\* delete the entry after its insert, an 'order_stats' entry that is present equals the
\* statistics computed from the orders table.
C20_CachedStatsMatchTable ==
    (/\ \A t \in Tasks : pc[t] = "idle"
     /\ ~delDropped
     /\ redis[StatsKey].present)
        => UnmarshalStats(redis[StatsKey].val).stats = StatsOf(orders, now, now)

\* C21 as stated: whenever no CheckRateLimit call on a key is in flight, a
\* counter that exists carries an expiry, and that expiry is at most one window
\* away.
C21_CounterAlwaysExpires ==
    \A k \in RateKeys :
        (redis[k].present /\ redis[k].val >= 1 /\ ~InFlight(k)) =>
            /\ redis[k].exp # NoExpiry
            /\ redis[k].exp <= now + window

\* The errors GetOrderStatistics returns when a query of the store fails
StatsQueryErrors ==
    {"failed to get total stats", "failed to get today's stats",
     "failed to get week's stats", "failed to get month's stats",
     "failed to get status counts"}

\* C22: a cache failure never fails a cached read: a GetTextureByID or
\* GetOrderStatistics call whose cache read failed, found nothing or found an
\* undecodable payload queries the store and returns what the store alone
\* determines (the row or the composite, or the error of the store read),
\* whether or not the cache write that follows succeeds.
C22_CacheFailureNeverFailsRead ==
    /\ (ret.op = "GetTextureByID" /\ ret.cacheRead \in {"error", "undecodable", "absent"})
          => /\ ret.dbQueried
             /\ <<ret.err, ret.tex>> \in StoreOutcomes(textures[ret.id])
    /\ (ret.op = "GetOrderStatistics" /\ ret.cacheRead # "hit")
          => /\ ~ret.fromCache
             /\ \/ ret.err = "nil" /\ CompleteStats(ret.stats)
                \/ ret.err \in StatsQueryErrors /\ ret.stats = ZeroStats

\* C22 witness: statistics were cached, the cache read of the next call failed and
\* so did its cache write (the old entry is still there); the call returned the
\* statistics of the table, which has an order by then.
C22_Witness ==
    /\ ret.op = "GetOrderStatistics" /\ ret.cacheRead = "error" /\ ret.err = "nil"
    /\ ret.stats.TotalOrders = 1 /\ Len(orders) = 1
    /\ redis[StatsKey].present
    /\ redis[StatsKey].val # MarshalStats(ret.stats)

\* C22 witness for textures: the cache read failed and the cache write failed;
\* the call returned the store's row.
C22_WitnessTexture ==
    /\ ret.op = "GetTextureByID" /\ ret.cacheRead = "error" /\ ret.err = "nil"
    /\ ret.tex = textures[ret.id]
    /\ ~redis[TextureKey(ret.id)].present

\* C22 witness of a payload that cannot be decoded
C22_WitnessUndecodable ==
    /\ ret.op = "GetOrderStatistics" /\ ret.cacheRead = "undecodable"
    /\ ret.err = "nil" /\ ret.stats.TotalOrders = 1

====
